---- MODULE Spec2Model ----
(***************************************************************************)
(* Licence-lease service of Programming/Python/CheckCreator/main.py.       *)
(*                                                                         *)
(* The lease table is a remote feature-service table shared by every       *)
(* running copy of the service.  One copy is a uvicorn process with one    *)
(* event loop; its handlers are "async def" bodies that make blocking      *)
(* requests.* calls and never await, so inside one process a handler runs  *)
(* to its return before the next request is taken.  The members of         *)
(* Instances are service processes that share the table; their outbound    *)
(* calls interleave freely.  Spec is one process, the program as main.py   *)
(* starts it; SpecShared is two processes started on the same table.       *)
(*                                                                         *)
(* Time is counted in ticks, TicksPerMs ticks to the millisecond: the      *)
(* value datetime.now().timestamp() * 1000 is a float with a fractional    *)
(* part, not an integer.  Floats are modelled with a mantissa of MantBits  *)
(* bits (53 in the program), rounding to nearest, ties to even.            *)
(*                                                                         *)
(* sys.exit() is modelled as the end of the process that calls it.         *)
(***************************************************************************)
EXTENDS Integers, Sequences, FiniteSets, TLC

\* ---------------------------------------------------------------- bounds
MaxRequests == 3
MaxAdvances == 2
SharedRequests == 2
SharedAdvances == 1
TicksPerMs == 4
MantBits == 20

\* ------------------------------------------------------ program constants
MsPerMinute == 60000

\* ------------------------------------------------------------ input sets
Instances == {"s1", "s2"}
Capacities == {0, 1, 2, 5}
Durations == {1, 5}
Items == { [ID |-> "u1", username |-> "amir"],
           [ID |-> "u2", username |-> "None"] }
NoItem == [ID |-> "", username |-> ""]

VARIABLES
    serving,          \* the service processes that were started
    creatorLicences,  \* capacity read at startup
    duration,         \* lease duration in minutes, from config.ini
    clock,            \* current time, in ticks
    advances,         \* number of clock advances so far
    table,            \* the lease table: a set of records
    nextOid,          \* next object id the store assigns
    requests,         \* number of requests received so far
    pc,               \* per instance: position in the handler
    endpoint,         \* per instance: "add", "check" or "none"
    item,             \* per instance: the body of the /add request
    records,          \* per instance: the count getRecords returned, -1 if none
    now,              \* per instance: create_item's now, -1 if unset
    end,              \* per instance: create_item's end, -1 if unset
    response,         \* per instance: the last response returned
    calls,            \* per instance: outbound calls of the current request
    purged,           \* per instance: records removed by this request's delete
    purgeClock,       \* per instance: store time of this request's delete
    purgeNextOid,     \* per instance: nextOid at this request's delete
    queryClock,       \* per instance: store time of this request's query
    quiet,            \* per instance: nothing happened since its delete
    lastFail,         \* the last failed insert
    staleInsert       \* an insert was made on a count that was out of date

vars == << serving, creatorLicences, duration, clock, advances, table, nextOid,
           requests, pc, endpoint, item, records, now, end, response, calls,
           purged, purgeClock, purgeNextOid, queryClock, quiet, lastFail,
           staleInsert >>

config == << serving, creatorLicences, duration >>
locals == << endpoint, item, records, now, end >>
ghosts == << purged, purgeClock, purgeNextOid, queryClock >>

\* ------------------------------------------------------------ arithmetic
RECURSIVE Pow2(_)
Pow2(n) == IF n = 0 THEN 1 ELSE 2 * Pow2(n - 1)

RECURSIVE Ulp(_, _)
Ulp(x, u) == IF x < Pow2(MantBits) * u THEN u ELSE Ulp(x, 2 * u)

\* The float nearest to x (x >= 0, in ticks), ties to the even mantissa.
FloatRound(x) ==
    LET u == Ulp(x, 1)
        q == x \div u
        r == x % u
    IN  IF 2 * r < u THEN q * u
        ELSE IF 2 * r > u THEN (q + 1) * u
        ELSE IF q % 2 = 0 THEN q * u ELSE (q + 1) * u

\* now = datetime.now().timestamp() * 1000
TimestampMs(c) == FloatRound(c)

\* A minute taken for 60 ms.
LeaseEnd_Seconds(n, d) == FloatRound(n + d * 60 * TicksPerMs)

\* end = now + (duration * 60000)
LeaseEnd(n, d) == FloatRound(n + d * MsPerMinute * TicksPerMs)

\* strftime('%Y-%m-%d %H:%M:%S') of fromtimestamp(t/1000): whole seconds
FormatSeconds(t) == t \div (1000 * TicksPerMs)

\* ----------------------------------------------------------------- store
\* A delete that removes nothing.
Expired_Never(r, c) == FALSE

\* The delete with "<=" for "<".
Expired_OrEqual(r, c) == r.end_ <= c

\* deleteFeatures where "end_ < CURRENT_TIMESTAMP"
Expired(r, c) == r.end_ < c

\* The batch sent without rollback.
rollbackOnFailure_Off == FALSE

\* "rollbackOnFailure": True
rollbackOnFailure == TRUE

\* ------------------------------------------------------------- responses
NoResponse ==
    [status |-> "", message |-> "", licences |-> "", ID |-> "", creator |-> "",
     start |-> -1, end |-> -1, remaining |-> ""]

\* The comparison with "<" for "<=".
NoLicence_Strict(cap, n) == cap < n

\* creatorLicences <= records
NoLicence(cap, n) == cap <= n

Call(to, res) == [to |-> to, res |-> res]

NoFail == [by |-> "", count |-> -1, quiet |-> FALSE]

Alive(p) == pc[p] # "exited"

\* A query that selects the leases still running.
QueryFeatures_Active(t) == {r \in t : r.end_ > clock}

\* where 1=1: every record of the table
QueryFeatures(t) == t

\* the record addFeatures stores for the submitted attributes
Feature(p) ==
    [oid |-> nextOid, id |-> item[p].ID, user_ |-> item[p].username,
     start |-> now[p], end_ |-> end[p]]

\* ------------------------------------------------------------------ Init
StartupWith(started, capacities, durations, clocks, tables) ==
    /\ serving = started
    /\ creatorLicences \in capacities
    /\ duration \in durations
    /\ clock \in clocks
    /\ advances = 0
    /\ table \in tables
    /\ nextOid = Cardinality(table) + 1
    /\ requests = 0
    /\ pc = [p \in Instances |-> "idle"]
    /\ endpoint = [p \in Instances |-> "none"]
    /\ item = [p \in Instances |-> NoItem]
    /\ records = [p \in Instances |-> -1]
    /\ now = [p \in Instances |-> -1]
    /\ end = [p \in Instances |-> -1]
    /\ response = [p \in Instances |-> NoResponse]
    /\ calls = [p \in Instances |-> << >>]
    /\ purged = [p \in Instances |-> {}]
    /\ purgeClock = [p \in Instances |-> -1]
    /\ purgeNextOid = [p \in Instances |-> -1]
    /\ queryClock = [p \in Instances |-> -1]
    /\ quiet = [p \in Instances |-> FALSE]
    /\ lastFail = NoFail
    /\ staleInsert = FALSE

\* A start on an empty table.
Startup(started, capacities, durations, clocks) ==
    StartupWith(started, capacities, durations, clocks, {{}})

\* A lease an earlier run of the service left in the table.
LeftLease ==
    [oid |-> 1, id |-> "u1", user_ |-> "amir",
     start |-> TimestampMs(0), end_ |-> LeaseEnd(TimestampMs(0), 1)]

\* One service process.
Init == Startup({"s1"}, Capacities, Durations, {TicksPerMs, TicksPerMs + 1})

\* Two service processes on the same table.
InitShared == Startup(Instances, {1}, {1}, {TicksPerMs + 1})

\* One service process, started on a table that is empty or holds a lease,
\* with or without a creator user type in the portal's licences.
InitLeft ==
    StartupWith({"s1"}, {0, 1}, {1}, {TicksPerMs + 1}, {{}, {LeftLease}})

\* The bounds of a run.
RequestBound == IF serving = Instances THEN SharedRequests ELSE MaxRequests
AdvanceBound == IF serving = Instances THEN SharedAdvances ELSE MaxAdvances

\* ----------------------------------------------------------- environment
\* Time passes: by one tick, or by one lease duration.
Tick(d) ==
    /\ advances < AdvanceBound
    /\ clock' = clock + d
    /\ advances' = advances + 1
    /\ quiet' = [p \in Instances |-> FALSE]
    /\ lastFail' = NoFail
    /\ UNCHANGED << config, table, nextOid, requests, pc, locals, response,
                    calls, ghosts, staleInsert >>

\* A request arrives at an instance that is serving and not busy.
Receive(p, ep, it) ==
    /\ p \in serving
    /\ pc[p] = "idle"
    /\ requests < RequestBound
    /\ requests' = requests + 1
    /\ pc' = [pc EXCEPT ![p] = "gr_token"]
    /\ endpoint' = [endpoint EXCEPT ![p] = ep]
    /\ item' = [item EXCEPT ![p] = it]
    /\ UNCHANGED << config, clock, advances, table, nextOid, records, now, end,
                    response, calls, ghosts, quiet, lastFail, staleInsert >>

\* POST /add
create_item_Receive(p, it) == Receive(p, "add", it)

\* POST /check
check_Receive(p) == Receive(p, "check", NoItem)

\* ------------------------------------------------------ ways out of a handler
\* sys.exit(): the process ends; no response is returned.
SysExit(p, call) ==
    /\ pc' = [pc EXCEPT ![p] = "exited"]
    /\ calls' = [calls EXCEPT ![p] = Append(@, call)]
    /\ UNCHANGED response

\* An exception no handler catches: the framework answers with an error and
\* the process goes on serving.
Uncaught(p, call) ==
    /\ pc' = [pc EXCEPT ![p] = "respond"]
    /\ calls' = [calls EXCEPT ![p] = Append(@, call)]
    /\ response' = [response EXCEPT ![p] =
           [NoResponse EXCEPT !.status = "error",
                              !.message = "Internal Server Error"]]

\* An Exception raised inside getRecords: /check catches it and exits
\* (lines 169-171), /add has no try around line 116.
RaisedInGetRecords(p, call) ==
    IF endpoint[p] = "check" THEN SysExit(p, call) ELSE Uncaught(p, call)

\* What a change of the table by instance p does to the bookkeeping.
Disturbed(p, changed) ==
    [q \in Instances |-> IF q = p THEN quiet[q] ELSE quiet[q] /\ ~changed]

\* ------------------------------------------------------------ getRecords
\* line 75: queryToken = getToken(...)
getRecords_getToken(p) ==
    /\ pc[p] = "gr_token"
    /\ pc' = [pc EXCEPT ![p] = "gr_delete"]
    /\ calls' = [calls EXCEPT ![p] = Append(@, Call("token", "ok"))]
    /\ UNCHANGED << config, clock, advances, table, nextOid, requests, locals,
                    response, ghosts, quiet, lastFail, staleInsert >>

\* line 75: getToken raises (the request fails, or the answer has no 'token')
getRecords_getTokenRaises(p) ==
    /\ pc[p] = "gr_token"
    /\ RaisedInGetRecords(p, Call("token", "raised"))
    /\ UNCHANGED << config, clock, advances, table, nextOid, requests, locals,
                    ghosts, quiet, lastFail, staleInsert >>

\* lines 84-86: the delete answers 200; the store has removed the expired rows
getRecords_deleteOk(p) ==
    /\ pc[p] = "gr_delete"
    /\ table' = {r \in table : ~Expired(r, clock)}
    /\ purged' = [purged EXCEPT ![p] = table \ table']
    /\ purgeClock' = [purgeClock EXCEPT ![p] = clock]
    /\ purgeNextOid' = [purgeNextOid EXCEPT ![p] = nextOid]
    /\ quiet' = [Disturbed(p, table' # table) EXCEPT ![p] = TRUE]
    /\ lastFail' = IF table' = table THEN lastFail ELSE NoFail
    /\ pc' = [pc EXCEPT ![p] = "gr_query"]
    /\ calls' = [calls EXCEPT ![p] = Append(@, Call("delete", "ok"))]
    /\ UNCHANGED << config, clock, advances, nextOid, requests, locals,
                    response, queryClock, staleInsert >>

\* The failed delete reported with an exception in place of sys.exit().
getRecords_deleteNot200_Raise(p) ==
    /\ pc[p] = "gr_delete"
    /\ RaisedInGetRecords(p, Call("delete", "not200"))
    /\ UNCHANGED << config, clock, advances, table, nextOid, requests, locals,
                    ghosts, quiet, lastFail, staleInsert >>

\* lines 100-102: the delete answers with another status; sys.exit()
getRecords_deleteNot200(p) ==
    /\ pc[p] = "gr_delete"
    /\ SysExit(p, Call("delete", "not200"))
    /\ UNCHANGED << config, clock, advances, table, nextOid, requests, locals,
                    ghosts, quiet, lastFail, staleInsert >>

\* line 84: requests.post raises
getRecords_deleteRaises(p) ==
    /\ pc[p] = "gr_delete"
    /\ RaisedInGetRecords(p, Call("delete", "raised"))
    /\ UNCHANGED << config, clock, advances, table, nextOid, requests, locals,
                    ghosts, quiet, lastFail, staleInsert >>

\* lines 97-99: the query answers; return len(queryResult)
getRecords_query(p) ==
    /\ pc[p] = "gr_query"
    /\ records' = [records EXCEPT ![p] = Cardinality(QueryFeatures(table))]
    /\ queryClock' = [queryClock EXCEPT ![p] = clock]
    /\ pc' = [pc EXCEPT ![p] = "decide"]
    /\ calls' = [calls EXCEPT ![p] = Append(@, Call("query", "ok"))]
    /\ UNCHANGED << config, clock, advances, table, nextOid, requests,
                    endpoint, item, now, end, response, purged, purgeClock,
                    purgeNextOid, quiet, lastFail, staleInsert >>

\* lines 97-98: the query raises, or its answer has no 'features'
getRecords_queryRaises(p) ==
    /\ pc[p] = "gr_query"
    /\ RaisedInGetRecords(p, Call("query", "raised"))
    /\ UNCHANGED << config, clock, advances, table, nextOid, requests, locals,
                    ghosts, quiet, lastFail, staleInsert >>

\* ----------------------------------------------------------- create_item
\* The denial with the insert's token fetched before the comparison.
create_item_Deny_TokenFirst(p) ==
    /\ pc[p] = "decide"
    /\ endpoint[p] = "add"
    /\ NoLicence(creatorLicences, records[p])
    /\ pc' = [pc EXCEPT ![p] = "respond"]
    /\ calls' = [calls EXCEPT ![p] = Append(@, Call("token", "ok"))]
    /\ response' = [response EXCEPT ![p] =
           [NoResponse EXCEPT !.ID = item[p].ID, !.creator = item[p].username,
                              !.status = "failed",
                              !.message = "No creator licences available"]]
    /\ UNCHANGED << config, clock, advances, table, nextOid, requests, locals,
                    ghosts, quiet, lastFail, staleInsert >>

\* lines 117-119: no licence left
create_item_Deny(p) ==
    /\ pc[p] = "decide"
    /\ endpoint[p] = "add"
    /\ NoLicence(creatorLicences, records[p])
    /\ pc' = [pc EXCEPT ![p] = "respond"]
    /\ response' = [response EXCEPT ![p] =
           [NoResponse EXCEPT !.ID = item[p].ID, !.creator = item[p].username,
                              !.status = "failed",
                              !.message = "No creator licences available"]]
    /\ UNCHANGED << config, clock, advances, table, nextOid, requests, locals,
                    calls, ghosts, quiet, lastFail, staleInsert >>

\* lines 120-122: a licence is left; now and end are computed
create_item_Admit(p) ==
    /\ pc[p] = "decide"
    /\ endpoint[p] = "add"
    /\ ~NoLicence(creatorLicences, records[p])
    /\ now' = [now EXCEPT ![p] = TimestampMs(clock)]
    /\ end' = [end EXCEPT ![p] = LeaseEnd(TimestampMs(clock), duration)]
    /\ pc' = [pc EXCEPT ![p] = "add_token"]
    /\ UNCHANGED << config, clock, advances, table, nextOid, requests,
                    endpoint, item, records, response, calls, ghosts, quiet,
                    lastFail, staleInsert >>

\* lines 124-126: token = getToken(...)
create_item_getToken(p) ==
    /\ pc[p] = "add_token"
    /\ pc' = [pc EXCEPT ![p] = "add_insert"]
    /\ calls' = [calls EXCEPT ![p] = Append(@, Call("token", "ok"))]
    /\ UNCHANGED << config, clock, advances, table, nextOid, requests, locals,
                    response, ghosts, quiet, lastFail, staleInsert >>

\* The token fetched with no try around it.
create_item_getTokenRaises_NoTry(p) ==
    /\ pc[p] = "add_token"
    /\ Uncaught(p, Call("token", "raised"))
    /\ UNCHANGED << config, clock, advances, table, nextOid, requests, locals,
                    ghosts, quiet, lastFail, staleInsert >>

\* lines 127-129: getToken raises; sys.exit()
create_item_getTokenRaises(p) ==
    /\ pc[p] = "add_token"
    /\ SysExit(p, Call("token", "raised"))
    /\ UNCHANGED << config, clock, advances, table, nextOid, requests, locals,
                    ghosts, quiet, lastFail, staleInsert >>

\* The seats left, without the one just taken.
LicencesRemaining_NotCounted(cap, n) == cap - n

\* line 158: creatorLicences - records - 1
LicencesRemaining(cap, n) == cap - n - 1

\* An insert that renews the lease of an id the table already holds.
create_item_addOk_Upsert(p) ==
    /\ pc[p] = "add_insert"
    /\ table' = IF \E r \in table : r.id = item[p].ID
                THEN {IF r.id = item[p].ID
                      THEN [r EXCEPT !.start = now[p], !.end_ = end[p]]
                      ELSE r : r \in table}
                ELSE table \cup {Feature(p)}
    /\ nextOid' = IF \E r \in table : r.id = item[p].ID
                  THEN nextOid ELSE nextOid + 1
    /\ staleInsert' = (staleInsert \/ Cardinality(table) > records[p])
    /\ quiet' = Disturbed(p, TRUE)
    /\ lastFail' = NoFail
    /\ pc' = [pc EXCEPT ![p] = "respond"]
    /\ calls' = [calls EXCEPT ![p] = Append(@, Call("insert", "ok"))]
    /\ response' = [response EXCEPT ![p] =
           [ID |-> item[p].ID, creator |-> item[p].username,
            start |-> FormatSeconds(now[p]), end |-> FormatSeconds(end[p]),
            remaining |-> ToString(duration), status |-> "success",
            licences |-> "",
            message |-> "remaining creator licences: "
                        \o ToString(LicencesRemaining(creatorLicences,
                                                       records[p]))]]
    /\ UNCHANGED << config, clock, advances, requests, locals, ghosts >>

\* lines 152-158: addFeatures answers 200; the store holds the new record
create_item_addOk(p) ==
    /\ pc[p] = "add_insert"
    /\ table' = table \cup {Feature(p)}
    /\ nextOid' = nextOid + 1
    /\ staleInsert' = (staleInsert \/ Cardinality(table) > records[p])
    /\ quiet' = Disturbed(p, TRUE)
    /\ lastFail' = NoFail
    /\ pc' = [pc EXCEPT ![p] = "respond"]
    /\ calls' = [calls EXCEPT ![p] = Append(@, Call("insert", "ok"))]
    /\ response' = [response EXCEPT ![p] =
           [ID |-> item[p].ID, creator |-> item[p].username,
            start |-> FormatSeconds(now[p]), end |-> FormatSeconds(end[p]),
            remaining |-> ToString(duration), status |-> "success",
            licences |-> "",
            message |-> "remaining creator licences: "
                        \o ToString(LicencesRemaining(creatorLicences,
                                                       records[p]))]]
    /\ UNCHANGED << config, clock, advances, requests, locals, ghosts >>

\* lines 159-161: addFeatures answers with another status; with
\* rollbackOnFailure the store keeps nothing of the batch
create_item_addNot200(p) ==
    /\ pc[p] = "add_insert"
    /\ table' = IF rollbackOnFailure THEN table ELSE table \cup {Feature(p)}
    /\ nextOid' = IF rollbackOnFailure THEN nextOid ELSE nextOid + 1
    /\ lastFail' = IF quiet[p]
                   THEN [by |-> p, count |-> records[p], quiet |-> TRUE]
                   ELSE NoFail
    /\ quiet' = Disturbed(p, table' # table)
    /\ pc' = [pc EXCEPT ![p] = "respond"]
    /\ calls' = [calls EXCEPT ![p] = Append(@, Call("insert", "not200"))]
    /\ response' = [response EXCEPT ![p] =
           [NoResponse EXCEPT !.ID = item[p].ID, !.creator = item[p].username,
                              !.status = "failed",
                              !.message = "Failed to add feature"]]
    /\ UNCHANGED << config, clock, advances, requests, locals, ghosts,
                    staleInsert >>

\* line 152: requests.post raises; nothing catches it
create_item_addRaises(p) ==
    /\ pc[p] = "add_insert"
    /\ Uncaught(p, Call("insert", "raised"))
    /\ UNCHANGED << config, clock, advances, table, nextOid, requests, locals,
                    ghosts, quiet, lastFail, staleInsert >>

\* ----------------------------------------------------------------- check
\* The answer of /check with the seat count off by one.
CheckResponse_OffByOne(cap, n) ==
    IF cap > n
    THEN [NoResponse EXCEPT
             !.status = "success", !.licences = ToString(cap - n - 1),
             !.message = "there exist " \o ToString(cap - n - 1)
                         \o " remaining creator licences."]
    ELSE [NoResponse EXCEPT
             !.status = "failed", !.licences = "0",
             !.message = "No creator licences available"]

\* lines 173-176: the answer of /check
CheckResponse(cap, n) ==
    IF cap > n
    THEN [NoResponse EXCEPT
             !.status = "success", !.licences = ToString(cap - n),
             !.message = "there exist " \o ToString(cap - n)
                         \o " remaining creator licences."]
    ELSE [NoResponse EXCEPT
             !.status = "failed", !.licences = "0",
             !.message = "No creator licences available"]

\* A /check that takes the seat it reports.
check_Return_Reserves(p) ==
    /\ pc[p] = "decide"
    /\ endpoint[p] = "check"
    /\ pc' = [pc EXCEPT ![p] = "respond"]
    /\ response' = [response EXCEPT ![p] =
                        CheckResponse(creatorLicences, records[p])]
    /\ table' = IF creatorLicences > records[p]
                THEN table \cup {[oid |-> nextOid, id |-> "", user_ |-> "",
                                  start |-> TimestampMs(clock),
                                  end_ |-> LeaseEnd(TimestampMs(clock),
                                                    duration)]}
                ELSE table
    /\ nextOid' = IF creatorLicences > records[p] THEN nextOid + 1 ELSE nextOid
    /\ UNCHANGED << config, clock, advances, requests, locals,
                    calls, ghosts, quiet, lastFail, staleInsert >>

\* lines 165-176
check_Return(p) ==
    /\ pc[p] = "decide"
    /\ endpoint[p] = "check"
    /\ pc' = [pc EXCEPT ![p] = "respond"]
    /\ response' = [response EXCEPT ![p] =
                        CheckResponse(creatorLicences, records[p])]
    /\ UNCHANGED << config, clock, advances, table, nextOid, requests, locals,
                    calls, ghosts, quiet, lastFail, staleInsert >>

\* ---------------------------------------------------------------- return
\* The response goes out; the handler's locals are gone and the instance
\* takes the next request.
Respond(p) ==
    /\ pc[p] = "respond"
    /\ pc' = [pc EXCEPT ![p] = "idle"]
    /\ endpoint' = [endpoint EXCEPT ![p] = "none"]
    /\ item' = [item EXCEPT ![p] = NoItem]
    /\ records' = [records EXCEPT ![p] = -1]
    /\ now' = [now EXCEPT ![p] = -1]
    /\ end' = [end EXCEPT ![p] = -1]
    /\ response' = [response EXCEPT ![p] = NoResponse]
    /\ calls' = [calls EXCEPT ![p] = << >>]
    /\ purged' = [purged EXCEPT ![p] = {}]
    /\ purgeClock' = [purgeClock EXCEPT ![p] = -1]
    /\ purgeNextOid' = [purgeNextOid EXCEPT ![p] = -1]
    /\ queryClock' = [queryClock EXCEPT ![p] = -1]
    /\ quiet' = [quiet EXCEPT ![p] = FALSE]
    /\ UNCHANGED << config, clock, advances, table, nextOid, requests,
                    lastFail, staleInsert >>

\* ------------------------------------------------------------------ Next
Next ==
    \/ \E d \in {1, duration * MsPerMinute * TicksPerMs} : Tick(d)
    \/ \E p \in Instances, it \in Items : create_item_Receive(p, it)
    \/ \E p \in Instances : check_Receive(p)
    \/ \E p \in Instances : getRecords_getToken(p)
    \/ \E p \in Instances : getRecords_getTokenRaises(p)
    \/ \E p \in Instances : getRecords_deleteOk(p)
    \/ \E p \in Instances : getRecords_deleteNot200(p)
    \/ \E p \in Instances : getRecords_deleteRaises(p)
    \/ \E p \in Instances : getRecords_query(p)
    \/ \E p \in Instances : getRecords_queryRaises(p)
    \/ \E p \in Instances : create_item_Deny(p)
    \/ \E p \in Instances : create_item_Admit(p)
    \/ \E p \in Instances : create_item_getToken(p)
    \/ \E p \in Instances : create_item_getTokenRaises(p)
    \/ \E p \in Instances : create_item_addOk(p)
    \/ \E p \in Instances : create_item_addNot200(p)
    \/ \E p \in Instances : create_item_addRaises(p)
    \/ \E p \in Instances : check_Return(p)
    \/ \E p \in Instances : Respond(p)

Spec == Init /\ [][Next]_vars

SpecShared == InitShared /\ [][Next]_vars

SpecLeft == InitLeft /\ [][Next]_vars

\* ================================================================ claims
\* The steps of getRecords, as seen from outside.
DeleteStep(p) == pc[p] = "gr_delete" /\ pc'[p] = "gr_query"
QueryStep(p) == pc[p] = "gr_query" /\ pc'[p] = "decide"

\* The calls of a getRecords that ran to its return.
GetRecordsCalls ==
    << Call("token", "ok"), Call("delete", "ok"), Call("query", "ok") >>

Last(q) == q[Len(q)]
Issued(p, to) == \E i \in 1..Len(calls[p]) : calls[p][i].to = to

\* /add has answered that no licence is left.
Denied(p) ==
    /\ endpoint[p] = "add"
    /\ pc[p] = "respond"
    /\ response[p].status = "failed"
    /\ response[p].message = "No creator licences available"

\* /add has passed the comparison and computed now and end.
Admitted(p) == endpoint[p] = "add" /\ now[p] # -1

\* The leases whose end is later than time c.
Active(t, c) == {r \in t : r.end_ > c}

\* One lease duration, in ticks.
DurationTicks == duration * MsPerMinute * TicksPerMs

\* C1: an /add request whose getRecords returned A is admitted (goes on
\* to the insert) if and only if A < capacity; at A = capacity it is denied
\* with status failed.
C1_AdmittedIffBelowCapacity ==
    \A p \in Instances :
        (endpoint[p] = "add" /\ records[p] # -1 /\ pc[p] # "decide")
        => IF records[p] < creatorLicences
           THEN Admitted(p) /\ ~Denied(p)
           ELSE Denied(p) /\ ~Admitted(p) /\ ~Issued(p, "insert")

C1_DeniedAtCapacity ==
    \E p \in Instances :
        /\ Denied(p)
        /\ creatorLicences >= 1
        /\ records[p] = creatorLicences

\* C2: with two service processes on one table the leases exceed the
\* capacity only through an insert made on a count that another insert had
\* overtaken; the state in which two /add requests that both counted
\* capacity-1 leases have both succeeded is reached.
C2_OverCapacityOnlyByStaleCount ==
    Cardinality(Active(table, clock)) > creatorLicences => staleInsert

C2_BothInsertedOverCapacity ==
    \E p, q \in Instances :
        /\ p # q
        /\ \A x \in {p, q} :
              /\ endpoint[x] = "add"
              /\ pc[x] = "respond"
              /\ response[x].status = "success"
              /\ records[x] = creatorLicences - 1
        /\ Cardinality(Active(table, clock)) > creatorLicences

\* C3: a successful delete of getRecords removes exactly the leases whose
\* end is earlier than the store's time and leaves every other record as it
\* was.
C3_PurgeRemovesExactlyExpired ==
    [][\A p \in Instances :
          DeleteStep(p)
          => /\ table' \subseteq table
             /\ \A r \in table : (r \notin table') <=> (r.end_ < clock)]_vars

C3_PurgedOneKeptBoundary ==
    \E p \in Instances :
        /\ pc[p] = "gr_query"
        /\ purged[p] # {}
        /\ \E r \in table : r.end_ = purgeClock[p]

\* C4 as claimed: the count getRecords returns is the number of leases
\* whose end is later than the store's time at the query.
C4_CountIsActiveLeases ==
    [][\A p \in Instances :
          QueryStep(p)
          => records'[p] = Cardinality(Active(table, clock))]_vars

\* C4 as amended: the count getRecords returns is the number of records in
\* the table at the query; those its delete left all end at or after the
\* store's time at the delete, the others were inserted since.
C4_CountIsTableAtQuery ==
    [][\A p \in Instances :
          QueryStep(p)
          => /\ records'[p] = Cardinality(table)
             /\ \A r \in table :
                   r.oid < purgeNextOid[p] => r.end_ >= purgeClock[p]]_vars

C4_BoundaryLeaseCounted ==
    \E p \in Instances :
        /\ pc[p] = "decide"
        /\ records[p] >= 1
        /\ \E r \in table : r.oid < purgeNextOid[p] /\ r.end_ = queryClock[p]

\* C5: a denied /add has made the three calls of getRecords and no other:
\* no token request and no insert follow, and the denial leaves the table
\* as it was.
C5_DenialMakesNoFurtherCall ==
    /\ [](\A p \in Instances :
             Denied(p) => /\ calls[p] = GetRecordsCalls
                          /\ now[p] = -1 /\ end[p] = -1)
    /\ [][\A p \in Instances :
             (pc[p] = "decide" /\ Denied(p)')
             => (table' = table /\ nextOid' = nextOid)]_vars

C5_DeniedWithTwoOfTwo ==
    \E p \in Instances :
        /\ Denied(p)
        /\ creatorLicences = 2
        /\ records[p] = 2
        /\ Cardinality(Active(table, clock)) = 2

\* The insert of p has just been answered with a status other than 200.
InsertFailStep(p) ==
    /\ pc[p] = "add_insert"
    /\ calls'[p] = Append(calls[p], Call("insert", "not200"))

C7_Expected(n) ==
    IF n < creatorLicences
    THEN [status |-> "success", licences |-> ToString(creatorLicences - n)]
    ELSE [status |-> "failed", licences |-> "0"]

\* C7: /check purges, counts the records left as A and returns success
\* with licences = capacity - A when A < capacity, failed with licences 0
\* otherwise.
C7_CheckReportsFreeLicences ==
    \A p \in Instances :
        (endpoint[p] = "check" /\ pc[p] = "respond")
        => /\ calls[p] = GetRecordsCalls
           /\ \A r \in purged[p] : r.end_ < purgeClock[p]
           /\ records[p] = Cardinality(table)
           /\ response[p].status = C7_Expected(records[p]).status
           /\ response[p].licences = C7_Expected(records[p]).licences

C7_OneExpiredOneRunningOfFive ==
    \E p \in Instances :
        /\ endpoint[p] = "check"
        /\ pc[p] = "respond"
        /\ creatorLicences = 5
        /\ Cardinality(purged[p]) = 1
        /\ Cardinality(Active(table, clock)) = 1
        /\ response[p].status = "success"
        /\ response[p].licences = "4"

\* The last call of p's request was a token request that raised.
TokenRaised(p) ==
    /\ calls[p] # << >>
    /\ Last(calls[p]) = Call("token", "raised")

\* A process that has exited does nothing more.
ExitedStaysExited ==
    \A p \in Instances :
        pc[p] = "exited"
        => /\ pc'[p] = "exited"
           /\ calls'[p] = calls[p]
           /\ response'[p] = response[p]

\* C8 as claimed: in /add any exception raised while a token is acquired
\* ends the process.
C8_AnyTokenExceptionIsFatal ==
    \A p \in Instances :
        (endpoint[p] = "add" /\ TokenRaised(p)) => pc[p] = "exited"

\* C8 as amended: in /add an exception raised while the token for the
\* insert is acquired ends the process, with no insert issued and no later
\* request served; one raised while the token for getRecords is acquired
\* is not caught: the request ends in an error with no delete, query or
\* insert issued, and the process is not ended.
C8_TokenExceptionByStep ==
    /\ [](\A p \in Instances :
             (endpoint[p] = "add" /\ TokenRaised(p))
             => /\ ~Issued(p, "insert")
                /\ IF Admitted(p)
                   THEN pc[p] = "exited" /\ Len(calls[p]) = 4
                   ELSE /\ pc[p] = "respond"
                        /\ response[p].status = "error"
                        /\ Len(calls[p]) = 1)
    /\ [][ExitedStaysExited]_vars

C8_ExitedAtInsertToken ==
    \E p \in Instances :
        /\ endpoint[p] = "add"
        /\ TokenRaised(p)
        /\ Admitted(p)
        /\ pc[p] = "exited"

Submitted ==
    {[start |-> now[p], end_ |-> end[p]] :
         p \in {x \in Instances : pc[x] = "add_insert"}}
    \cup {[start |-> r.start, end_ |-> r.end_] : r \in table}

Abs(x) == IF x < 0 THEN -x ELSE x

\* C10 as claimed: start and end of a submitted lease are whole numbers
\* of milliseconds and end = start + duration * 60000.
C10_EndIsExactInteger ==
    \A l \in Submitted :
        /\ l.start % TicksPerMs = 0
        /\ l.end_ % TicksPerMs = 0
        /\ l.end_ = l.start + DurationTicks

\* C10 as amended: start and end are floats that may carry a fraction of
\* a millisecond; end is the float nearest to start + duration * 60000, and
\* equals it whenever that sum is a float.
C10_EndIsNearestFloat ==
    \A l \in Submitted :
        LET sum == l.start + DurationTicks
        IN  /\ 2 * Abs(l.end_ - sum) <= Ulp(sum, 1)
            /\ sum < Pow2(MantBits) => l.end_ = sum

C10_FractionalStartExactEnd ==
    \E r \in table :
        /\ r.start % TicksPerMs # 0
        /\ r.end_ = r.start + DurationTicks


\* /add has answered that the lease was created.
Succeeded(p) ==
    /\ endpoint[p] = "add"
    /\ pc[p] = "respond"
    /\ response[p].status = "success"

\* C11: a successful /add reports capacity - A - 1 remaining licences, A
\* being the count its getRecords returned.
C11_ReportsCapacityLessCountLessOne ==
    \A p \in Instances :
        Succeeded(p)
        => /\ records[p] >= 0
           /\ response[p].message
                  = "remaining creator licences: "
                    \o ToString(creatorLicences - records[p] - 1)

C11_FirstOfTwoReportsOne ==
    \E p \in Instances :
        /\ Succeeded(p)
        /\ creatorLicences = 2
        /\ records[p] = 0
        /\ response[p].message = "remaining creator licences: 1"


\* A step of a /check request of p, from its arrival to its answer.
CheckStep(p) ==
    /\ pc'[p] # pc[p]
    /\ endpoint[p] = "check" \/ endpoint'[p] = "check"

\* C12: no step of a /check request inserts a lease or changes one, and
\* the only leases a step removes are those whose end is earlier than the
\* store's time.
C12_CheckOnlyPurges ==
    [][\A p \in Instances :
          CheckStep(p)
          => /\ nextOid' = nextOid
             /\ table' \subseteq table
             /\ \A r \in table \ table' : r.end_ < clock]_vars

C12_CheckPurgedAndKept ==
    \E p \in Instances :
        /\ endpoint[p] = "check"
        /\ pc[p] = "respond"
        /\ purged[p] # {}
        /\ \E r \in table : r.end_ >= clock


\* The attributes /add has submitted for the record the store numbers oid.
SubmittedBy(p, oid) ==
    [oid |-> oid, id |-> item[p].ID, user_ |-> item[p].username,
     start |-> now[p], end_ |-> end[p]]

\* C13: a record of the table keeps the id, owner, start and end it was
\* inserted with: every step leaves each record as it was or removes it
\* whole, and a new record is the one an /add submitted.
C13_LeasesAreImmutable ==
    /\ [](\A r1, r2 \in table : r1.oid = r2.oid => r1 = r2)
    /\ [][/\ \A r \in table : \A s \in table' : s.oid = r.oid => s = r
          /\ \A s \in table' \ table :
                \E p \in Instances :
                    /\ pc[p] = "add_insert"
                    /\ s = SubmittedBy(p, nextOid)]_vars

C13_OldLeaseBesideNewOne ==
    \E p \in Instances :
        /\ Succeeded(p)
        /\ purged[p] # {}
        /\ \E r \in table : r.start < now[p] /\ r.oid < purgeNextOid[p]


\* The insert of p has just been answered with status 200.
InsertOkStep(p) ==
    /\ pc[p] = "add_insert"
    /\ calls'[p] = Append(calls[p], Call("insert", "ok"))

\* C14: the id is not checked for uniqueness: an insert that succeeds adds
\* one record with the id of the request whatever ids the table holds, so
\* two /add requests with one id leave two running leases with that id, and
\* each of them is counted against the capacity.
C14_InsertAddsRecordWhateverTheId ==
    [][\A p \in Instances :
          InsertOkStep(p)
          => /\ table \subseteq table'
             /\ Cardinality(table') = Cardinality(table) + 1
             /\ \A s \in table' \ table : s.id = item[p].ID]_vars

C14_TwoLeasesOfOneIdFillTwoSeats ==
    \E p \in Instances :
        /\ Denied(p)
        /\ creatorLicences = 2
        /\ records[p] = 2
        /\ \E r1, r2 \in Active(table, clock) :
              r1 # r2 /\ r1.id = r2.id


\* C15: with one process, which handles its requests one after the other,
\* and a table that starts empty, the table never holds more records than
\* the capacity, and no insert is made on a count that is out of date.
C15_SerialNeverOverCapacity ==
    /\ Cardinality(table) <= creatorLicences
    /\ ~staleInsert

C15_FullTableAtNextRequest ==
    \E p \in Instances :
        /\ endpoint[p] = "add"
        /\ pc[p] = "decide"
        /\ advances >= 1
        /\ creatorLicences = 2
        /\ Cardinality(table) = creatorLicences


\* No call of p's request has failed.
AllCallsOk(p) == \A i \in 1..Len(calls[p]) : calls[p][i].res = "ok"

\* The records p's delete found: those it removed and those it left.
FoundAtPurge(p) == purged[p] \cup {r \in table : r.oid < purgeNextOid[p]}

\* C16: when the table holds capacity leases and the store's time has
\* passed the end of one of them, an /add request whose calls all succeed
\* is admitted and inserts its lease, and its purge leaves no lease whose
\* end had passed.
C16_ExpiredSeatIsFreed ==
    \A p \in Instances :
        ( /\ endpoint[p] = "add"
          /\ pc[p] = "respond"
          /\ AllCallsOk(p)
          /\ creatorLicences >= 1
          /\ Cardinality(FoundAtPurge(p)) = creatorLicences
          /\ \E r \in FoundAtPurge(p) : r.end_ < purgeClock[p] )
        => /\ Succeeded(p)
           /\ Issued(p, "insert")
           /\ \E r \in table : r.oid >= purgeNextOid[p] /\ r.start = now[p]
           /\ \A r \in table :
                 r.oid < purgeNextOid[p] => r.end_ >= purgeClock[p]

C16_AdmittedAfterExpiry ==
    \E p \in Instances :
        /\ Succeeded(p)
        /\ creatorLicences >= 1
        /\ Cardinality(FoundAtPurge(p)) = creatorLicences
        /\ purged[p] # {}


\* C17: no step changes the capacity; while it is 0, no /add is admitted
\* or sends an insert, an /add whose getRecords succeeded is denied, a
\* /check whose getRecords succeeded answers status failed with licences
\* "0", and no record is added to the table, whatever it holds.
C17_NoCreatorTypeNoLease ==
    /\ [][creatorLicences' = creatorLicences]_vars
    /\ [](creatorLicences = 0
          => \A p \in Instances :
                /\ ~Admitted(p)
                /\ ~Issued(p, "insert")
                /\ response[p].status # "success"
                /\ (pc[p] = "respond" /\ calls[p] = GetRecordsCalls)
                   => IF endpoint[p] = "add"
                      THEN Denied(p)
                      ELSE /\ response[p].status = "failed"
                           /\ response[p].licences = "0")
    /\ [][creatorLicences = 0
          => nextOid' = nextOid /\ table' \subseteq table]_vars

C17_DeniedBesideALease ==
    \E p \in Instances :
        /\ creatorLicences = 0
        /\ table # {}
        /\ Denied(p)
        /\ calls[p] = GetRecordsCalls

====
